---- MODULE Spec2Model ----
(***************************************************************************)
(* Candidate discovery and selection of pip's PackageFinder:               *)
(*   pip/finder_funcs.py  the link filter (_link_package_versions)         *)
(*   pip/found.py         FoundVersion and its sort key                    *)
(*   pip/finder/*.py      the installed and find-links finders             *)
(*   pip/index.py         PackageFinder.find_requirement, the page walker  *)
(*                                                                         *)
(* A Link is a record of what the code reads from it.  Strings cannot be   *)
(* taken apart by TLC, so a link carries the pieces its URL splits into:   *)
(*   url        the URL (Link equality is URL equality)                    *)
(*   egg        TRUE iff the URL has an #egg= fragment                     *)
(*   ext        the extension of the file name, "" when there is none      *)
(*   macosx     TRUE iff "macosx10" occurs in the path                     *)
(*   proj, ver  project and version part of the egg_info (the fragment     *)
(*              when egg, else the file name's stem); proj = "" when the   *)
(*              egg_info does not match _egg_info_re                       *)
(*   pysuf      the -pyX.Y suffix of the version: "", "match", "mismatch"  *)
(*   whl        "ok" / "invalid": whether Wheel(filename) parses           *)
(*   tagidx     support_index_min of the wheel, -1 when not supported      *)
(*   pypibin    TRUE iff the pypi-hosted binary wheel rule rejects it      *)
(*   internal, verifiable   tri-states "unknown" / "yes" / "no"            *)
(*   regex      TRUE iff the link was scraped by a deprecated regex        *)
(***************************************************************************)
EXTENDS Integers, Sequences, FiniteSets, TLC

\* ------------------------------------------------------------------ bounds

\* len(supported_tags) of the running interpreter
SupportNum == 2
\* links handed to the link filter during one find_requirement call
MaxLinks == 2

\* ------------------------------------------------- names and version strings

ReqName == "Foo"

\* str.lower() on the names of the model
Lower(s) == CASE s = "Foo" -> "foo" [] s = "FOO" -> "foo" [] OTHER -> s

\* pip.utils.normalize_name: lower-case, runs of -_. become one "-"
NormalizeName(s) == Lower(s)

NoVersion == "None"
Versions == {"1.0", "2.0a1", "2.0"}

\* pkg_resources.parse_version: an order-preserving parse of a version string
ParsedVersion(v) ==
    CASE v = "1.0" -> 10
      [] v = "2.0a1" -> 19
      [] v = "2.0" -> 20
      [] OTHER -> 0

\* pip.utils.is_prerelease
IsPrerelease(v) == v = "2.0a1"

\* req.req.specs: the empty specifier, or one (operator, version) pair
Specifiers == {<<>>, <<"<", "2.0">>}

\* `version in req.req` (pkg_resources.Requirement.__contains__)
SpecContains(specs, v) ==
    CASE specs = <<>> -> TRUE
      [] specs[1] = "<" -> ParsedVersion(v) < ParsedVersion(specs[2])
      [] specs[1] = ">=" -> ParsedVersion(v) >= ParsedVersion(specs[2])
      [] specs[1] = "==" -> ParsedVersion(v) = ParsedVersion(specs[2])
      [] OTHER -> FALSE

\* --------------------------------------------------------------------- links

wheel_ext == ".whl"

Tri == {"unknown", "yes", "no"}

MkLink(url, egg, ext, macosx, proj, ver, pysuf, whl, tagidx, internal, verifiable) ==
    [url |-> url, egg |-> egg, ext |-> ext, macosx |-> macosx, proj |-> proj,
     ver |-> ver, pysuf |-> pysuf, whl |-> whl, tagidx |-> tagidx,
     pypibin |-> FALSE, internal |-> internal, verifiable |-> verifiable,
     regex |-> FALSE]

\* pip.link.INSTALLED_VERSION: a sentinel that equals no link made from a URL
INSTALLED_VERSION ==
    MkLink("<installed>", FALSE, "", FALSE, "", NoVersion, "", "ok", -1,
           "unknown", "unknown")

FoundVersion(version, link) == [version |-> version, link |-> link]

currently_installed(found) == found.link = INSTALLED_VERSION

prerelease(found) == IsPrerelease(found.version)

parsed_version(found) == ParsedVersion(found.version)

\* ----------------------------------------------------------- the link filter

\* the (logged_links, need_warn_*) part of the finder the filter is passed
FilterState(ll, nwe, nwu) ==
    [logged_links |-> ll, need_warn_external |-> nwe, need_warn_unverified |-> nwu]

_known_extensions(use_wheel) ==
    LET extensions == {".tar.gz", ".tar.bz2", ".tar", ".tgz", ".zip"}
    IN  IF use_wheel THEN extensions \cup {wheel_ext} ELSE extensions

\* the version after "<search_name>-" in the egg_info, or None
_egg_info_matches(link, search_name) ==
    IF link.proj = "" THEN NoVersion
    ELSE IF Lower(link.proj) = Lower(search_name) THEN link.ver
    ELSE NoVersion

\* Result of one filter call: found (zero or one FoundVersion), the state it
\* leaves, the reason it gave, and whether it wrote a "skipping" debug line.
FilterResult(found, state, out, line) ==
    [found |-> found, state |-> state, out |-> out, line |-> line]

\* "if link not in state.logged_links: logger.debug(...); logged_links.add(link)"
LogOnce(link, state, out) ==
    FilterResult(<<>>,
                 [state EXCEPT !.logged_links = @ \cup {link.url}],
                 out,
                 link.url \notin state.logged_links)

\* the wheel steps of a link whose file name ends in .whl
WheelSkip(link, search_name) ==
    IF link.whl = "invalid" THEN "invalid_wheel"
    ELSE IF Lower(link.proj) # Lower(search_name) THEN "wrong_project_wheel"
    ELSE IF link.tagidx < 0 THEN "unsupported_wheel"
    ELSE IF link.pypibin THEN "pypi_binary_wheel"
    ELSE "ok"

\* the hosting check without its allow_all_external exemption
PolicyStepsNoAllowAll(link, search_name, config, state, version) ==
    IF /\ link.internal = "no"
       /\ NormalizeName(search_name) \notin config.allow_external
    THEN FilterResult(<<>>, [state EXCEPT !.need_warn_external = TRUE],
                      "external", TRUE)
    ELSE IF /\ link.verifiable = "no"
            /\ NormalizeName(search_name) \notin config.allow_unverified
    THEN FilterResult(<<>>, [state EXCEPT !.need_warn_unverified = TRUE],
                      "unverifiable", TRUE)
    ELSE IF link.pysuf = "mismatch"
    THEN FilterResult(<<>>, state, "python_version", TRUE)
    ELSE FilterResult(<<FoundVersion(version, link)>>, state, "found", FALSE)

\* the verifiability check waived by allow_all_external
PolicyStepsExternalExempts(link, search_name, config, state, version) ==
    IF /\ link.internal = "no"
       /\ NormalizeName(search_name) \notin config.allow_external
       /\ ~config.allow_all_external
    THEN FilterResult(<<>>, [state EXCEPT !.need_warn_external = TRUE],
                      "external", TRUE)
    ELSE IF /\ link.verifiable = "no"
            /\ NormalizeName(search_name) \notin config.allow_unverified
            /\ ~config.allow_all_external
    THEN FilterResult(<<>>, [state EXCEPT !.need_warn_unverified = TRUE],
                      "unverifiable", TRUE)
    ELSE IF link.pysuf = "mismatch"
    THEN FilterResult(<<>>, state, "python_version", TRUE)
    ELSE FilterResult(<<FoundVersion(version, link)>>, state, "found", FALSE)

\* the python-version check ahead of the hosting and verifiability checks
PolicyStepsPythonFirst(link, search_name, config, state, version) ==
    IF link.pysuf = "mismatch"
    THEN FilterResult(<<>>, state, "python_version", TRUE)
    ELSE IF /\ link.internal = "no"
            /\ NormalizeName(search_name) \notin config.allow_external
            /\ ~config.allow_all_external
    THEN FilterResult(<<>>, [state EXCEPT !.need_warn_external = TRUE],
                      "external", TRUE)
    ELSE IF /\ link.verifiable = "no"
            /\ NormalizeName(search_name) \notin config.allow_unverified
    THEN FilterResult(<<>>, [state EXCEPT !.need_warn_unverified = TRUE],
                      "unverifiable", TRUE)
    ELSE FilterResult(<<FoundVersion(version, link)>>, state, "found", FALSE)

\* steps 8-11: hosting, verifiability, python version; version is not None
PolicySteps(link, search_name, config, state, version) ==
    IF /\ link.internal = "no"
       /\ NormalizeName(search_name) \notin config.allow_external
       /\ ~config.allow_all_external
    THEN FilterResult(<<>>, [state EXCEPT !.need_warn_external = TRUE],
                      "external", TRUE)
    ELSE IF /\ link.verifiable = "no"
            /\ NormalizeName(search_name) \notin config.allow_unverified
    THEN FilterResult(<<>>, [state EXCEPT !.need_warn_unverified = TRUE],
                      "unverifiable", TRUE)
    ELSE IF link.pysuf = "mismatch"
    THEN FilterResult(<<>>, state, "python_version", TRUE)
    ELSE FilterResult(<<FoundVersion(version, link)>>, state, "found", FALSE)

\* steps 7-11 left out for a link that is already in logged_links
VersionStepsLoggedSkipped(link, search_name, config, state, wheel_version) ==
    LET version == IF wheel_version # NoVersion THEN wheel_version
                   ELSE _egg_info_matches(link, search_name)
    IN  IF version = NoVersion \/ link.url \in state.logged_links
        THEN FilterResult(<<>>, state, "wrong_project", TRUE)
        ELSE PolicySteps(link, search_name, config, state, version)

\* steps 7-11, entered with the version the wheel steps set (or None)
VersionSteps(link, search_name, config, state, wheel_version) ==
    LET version == IF wheel_version # NoVersion THEN wheel_version
                   ELSE _egg_info_matches(link, search_name)
    IN  IF version = NoVersion
        THEN FilterResult(<<>>, state, "wrong_project", TRUE)
        ELSE PolicySteps(link, search_name, config, state, version)

\* the extension compared without its dot: never equal
MacosxZipNoDot(link) == link.macosx /\ link.ext = "zip"

\* '"macosx10" in link.path and ext == ".zip"'
MacosxZip(link) == link.macosx /\ link.ext = ".zip"

_link_package_versions(link, search_name, config, state) ==
    IF link.egg
    THEN VersionSteps(link, search_name, config, state, NoVersion)
    ELSE IF link.ext = ""
    THEN LogOnce(link, state, "not_a_file")
    ELSE IF link.ext \notin _known_extensions(config.use_wheel)
    THEN LogOnce(link, state, "unknown_format")
    ELSE IF MacosxZip(link)
    THEN LogOnce(link, state, "macosx10")
    ELSE IF link.ext = wheel_ext
    THEN IF WheelSkip(link, search_name) # "ok"
         THEN FilterResult(<<>>, state, WheelSkip(link, search_name), TRUE)
         ELSE VersionSteps(link, search_name, config, state, link.ver)
    ELSE VersionSteps(link, search_name, config, state, NoVersion)

\* non-egg links first, egg links second, duplicates (same URL) dropped
RECURSIVE Dedup(_, _)
Dedup(links, seen_urls) ==
    IF links = <<>> THEN <<>>
    ELSE IF Head(links).url \in seen_urls THEN Dedup(Tail(links), seen_urls)
    ELSE <<Head(links)>> \o Dedup(Tail(links), seen_urls \cup {Head(links).url})

_sort_links(links) ==
    LET uniq == Dedup(links, {})
    IN  SelectSeq(uniq, LAMBDA l : ~l.egg) \o SelectSeq(uniq, LAMBDA l : l.egg)

\* folds the filter over the links in order, threading the state
RECURSIVE FilterAll(_, _, _, _)
FilterAll(links, search_name, config, state) ==
    IF links = <<>> THEN [found |-> <<>>, state |-> state]
    ELSE LET r == _link_package_versions(Head(links), search_name, config, state)
             rest == FilterAll(Tail(links), search_name, config, r.state)
         IN  [found |-> r.found \o rest.found, state |-> rest.state]

_package_versions(links, search_name, config, state) ==
    FilterAll(_sort_links(links), search_name, config, state)

\* ------------------------------------------------------- FoundVersion.sort

\* what _sort_key raises for a candidate, "ok" when it returns a key
SortKeyError(found) ==
    IF currently_installed(found) THEN "ok"
    ELSE IF found.link.ext = wheel_ext
    THEN IF found.link.whl = "invalid" THEN "InvalidWheelFilename"
         ELSE IF found.link.tagidx < 0 THEN "UnsupportedWheel"
         ELSE "ok"
    ELSE "ok"

\* the source archive given the sign of the best rank instead of the worst
PriSdistFirst(found) ==
    IF currently_installed(found) THEN 1
    ELSE IF found.link.ext = wheel_ext THEN -(found.link.tagidx)
    ELSE SupportNum

\* the second component of the sort key
Pri(found) ==
    IF currently_installed(found) THEN 1
    ELSE IF found.link.ext = wheel_ext THEN -(found.link.tagidx)
    ELSE -(SupportNum)

_sort_key(found) == <<parsed_version(found), Pri(found)>>

\* the comparison turned around: the sort comes out ascending
KeyGreater(k1, k2) == k2[1] < k1[1] \/ (k2[1] = k1[1] /\ k2[2] < k1[2])

\* tuple comparison k1 < k2
KeyLess(k1, k2) == k1[1] < k2[1] \/ (k1[1] = k2[1] /\ k1[2] < k2[2])

\* x goes in front of the elements of equal key: descending, not stable
RECURSIVE InsertDescUnstable(_, _)
InsertDescUnstable(x, sorted) ==
    IF sorted = <<>> THEN <<x>>
    ELSE IF ~KeyLess(_sort_key(x), _sort_key(Head(sorted)))
    THEN <<x>> \o sorted
    ELSE <<Head(sorted)>> \o InsertDescUnstable(x, Tail(sorted))

\* x goes behind every element whose key is not smaller: descending, stable
RECURSIVE InsertDesc(_, _)
InsertDesc(x, sorted) ==
    IF sorted = <<>> THEN <<x>>
    ELSE IF KeyLess(_sort_key(Head(sorted)), _sort_key(x))
    THEN <<x>> \o sorted
    ELSE <<Head(sorted)>> \o InsertDesc(x, Tail(sorted))

RECURSIVE SortedDesc(_, _)
SortedDesc(versions, acc) ==
    IF versions = <<>> THEN acc
    ELSE SortedDesc(Tail(versions), InsertDesc(Head(versions), acc))

\* the first exception a key computation raises, in list order
RECURSIVE FirstKeyError(_)
FirstKeyError(versions) ==
    IF versions = <<>> THEN "ok"
    ELSE IF SortKeyError(Head(versions)) # "ok" THEN SortKeyError(Head(versions))
    ELSE FirstKeyError(Tail(versions))

\* sorted(versions, key=cls._sort_key, reverse=True)
sort(versions) ==
    IF FirstKeyError(versions) # "ok"
    THEN [error |-> FirstKeyError(versions), versions |-> <<>>]
    ELSE [error |-> "ok", versions |-> SortedDesc(versions, <<>>)]

\* ------------------------------------------------------ the links of a run

SeqsUpTo(S, n) == UNION {[1..k -> S] : k \in 0..n}

\* archives named for the project: source archives, wheels, egg fragments
Sdist10 == MkLink("http://a/foo-1.0.tar.gz", FALSE, ".tar.gz", FALSE,
                  "foo", "1.0", "", "ok", -1, "unknown", "unknown")
Sdist20 == MkLink("http://a/foo-2.0.tar.gz", FALSE, ".tar.gz", FALSE,
                  "foo", "2.0", "", "ok", -1, "unknown", "unknown")
Zip20 == MkLink("http://b/Foo-2.0.zip", FALSE, ".zip", FALSE,
                "Foo", "2.0", "", "ok", -1, "unknown", "unknown")
Pre20 == MkLink("http://a/foo-2.0a1.tar.gz", FALSE, ".tar.gz", FALSE,
                "foo", "2.0a1", "", "ok", -1, "unknown", "unknown")
Wheel20 == MkLink("http://a/foo-2.0-py3-none-any.whl", FALSE, wheel_ext, FALSE,
                  "foo", "2.0", "", "ok", 0, "unknown", "unknown")
\* the same release built for the least preferred supported tag
Wheel20b == MkLink("http://a/foo-2.0-py2.py3-none-any.whl", FALSE, wheel_ext, FALSE,
                   "foo", "2.0", "", "ok", SupportNum - 1, "unknown", "unknown")
\* a wheel for another interpreter, named by a URL with an egg fragment
EggWheel20 == MkLink("http://a/foo-2.0-py9-none-any.whl#egg=foo-2.0", TRUE, wheel_ext,
                     FALSE, "foo", "2.0", "", "ok", -1, "unknown", "unknown")
\* links the filter drops
NotAFile == MkLink("http://localhost/simple/foo", FALSE, "", FALSE,
                   "", NoVersion, "", "ok", -1, "unknown", "unknown")
\* anchors of an api-version 2 page: hosted elsewhere, or not verifiable
External20 == MkLink("http://x/foo-2.0.tar.gz", FALSE, ".tar.gz", FALSE,
                     "foo", "2.0", "", "ok", -1, "no", "unknown")
Unverifiable10 == MkLink("http://y/foo-1.0.tar.gz", FALSE, ".tar.gz", FALSE,
                         "foo", "1.0", "", "ok", -1, "yes", "no")

\* Link(url) and Link(url, '-f', trusted=True): made from a bare URL
UrlLinks == {Sdist10, Sdist20, Zip20, Pre20, Wheel20, Wheel20b, EggWheel20,
             NotAFile}
\* Link(url, page, internal=...): an anchor of a fetched page
PageLinks == UrlLinks \cup {External20, Unverifiable10}

NoLink == MkLink("<none>", FALSE, "", FALSE, "", NoVersion, "", "ok", -1,
                 "unknown", "unknown")

\* a requirement: name, installed version (satisfied_by), specifier, prereleases
Requirements ==
    [name : {ReqName}, satisfied_by : Versions \cup {NoVersion},
     specs : Specifiers, prereleases : BOOLEAN]

NoReq == [name |-> ReqName, satisfied_by |-> NoVersion, specs |-> <<>>,
          prereleases |-> FALSE]

\* ---------------------------------------------------------------- the state

VARIABLES
    \* PackageFinder
    find_links, index_urls, dependency_links, logged_links, use_wheel,
    allow_external, allow_unverified, allow_all_external,
    need_warn_external, need_warn_unverified, allow_all_prereleases,
    process_dependency_links,
    \* one find_requirement call
    pc, all_locations, seen, found_versions, page_versions, nlinks,
    req, upgrade, pools, all_versions, applicable_versions, result,
    \* the kinds of link or rel-link this call ignored
    ignored,
    \* one application of the link filter on its own
    flt

finder_vars == <<find_links, index_urls, dependency_links, logged_links, use_wheel,
                 allow_external, allow_unverified, allow_all_external,
                 need_warn_external, need_warn_unverified, allow_all_prereleases,
                 process_dependency_links>>

call_vars == <<pc, all_locations, seen, found_versions, page_versions, nlinks,
               req, upgrade, pools, all_versions, applicable_versions, result,
               ignored>>

vars == <<finder_vars, call_vars, flt>>

\* the finder as the `config` argument of the filter
Config == [use_wheel |-> use_wheel, allow_external |-> allow_external,
           allow_unverified |-> allow_unverified,
           allow_all_external |-> allow_all_external]

\* the finder as the `state` argument of the filter
State == FilterState(logged_links, need_warn_external, need_warn_unverified)

NoResult == [kind |-> "none", link |-> NoLink, message |-> "",
             warn_external |-> FALSE, warn_unverified |-> FALSE,
             deprecation |-> FALSE]

NoPools == [file |-> <<>>, found |-> <<>>, page |-> <<>>, dependency |-> <<>>]

NoFilter == [phase |-> "off"]

NoIgnored == [external |-> FALSE, unverified |-> FALSE]

\* the filter state with both flags clear: what a step sets from there is what
\* the step itself ignored
Fresh(state) ==
    [state EXCEPT !.need_warn_external = FALSE, !.need_warn_unverified = FALSE]

Noted(before, flags) ==
    [external |-> before.external \/ flags.need_warn_external,
     unverified |-> before.unverified \/ flags.need_warn_unverified]

\* __init__ without "self.allow_external |= self.allow_unverified"
PackageFinderInitNoUnion(fl, iu, uw, ae, au, aae, aap, pdl) ==
    /\ find_links = fl
    /\ index_urls = iu
    /\ dependency_links = <<>>
    /\ logged_links = {}
    /\ use_wheel = uw
    /\ allow_unverified = {NormalizeName(n) : n \in au}
    /\ allow_external = {NormalizeName(n) : n \in ae}
    /\ allow_all_external = aae
    /\ need_warn_external = FALSE
    /\ need_warn_unverified = FALSE
    /\ allow_all_prereleases = aap
    /\ process_dependency_links = pdl

\* PackageFinder.__init__
PackageFinderInit(fl, iu, uw, ae, au, aae, aap, pdl) ==
    /\ find_links = fl
    /\ index_urls = iu
    /\ dependency_links = <<>>
    /\ logged_links = {}
    /\ use_wheel = uw
    /\ allow_unverified = {NormalizeName(n) : n \in au}
    /\ allow_external = {NormalizeName(n) : n \in ae} \cup {NormalizeName(n) : n \in au}
    /\ allow_all_external = aae
    /\ need_warn_external = FALSE
    /\ need_warn_unverified = FALSE
    /\ allow_all_prereleases = aap
    /\ process_dependency_links = pdl

CallInit ==
    /\ pc = "idle"
    /\ all_locations = <<>>
    /\ seen = {}
    /\ found_versions = <<>>
    /\ page_versions = <<>>
    /\ nlinks = 0
    /\ req = NoReq
    /\ upgrade = FALSE
    /\ pools = NoPools
    /\ all_versions = <<>>
    /\ applicable_versions = <<>>
    /\ result = NoResult
    /\ ignored = NoIgnored

IndexUrlChoices == {<<>>, <<"https://pypi/simple/">>}

Init ==
    /\ \E fl \in SeqsUpTo(UrlLinks, MaxLinks), iu \in IndexUrlChoices,
          uw \in {TRUE}, ae \in {{}}, au \in {{}},
          aae \in {FALSE}, aap \in BOOLEAN, pdl \in BOOLEAN :
            PackageFinderInit(fl, iu, uw, ae, au, aae, aap, pdl)
    /\ CallInit
    /\ flt = NoFilter

\* --------------------------------------------------------- the two finders

\* InstalledFinder(req).found
InstalledFound(r) ==
    IF r.satisfied_by = NoVersion THEN <<>>
    ELSE <<FoundVersion(r.satisfied_by, INSTALLED_VERSION)>>

\* FindLinksFinder(req, config, state).found
FindLinksFound(r, config, state) ==
    _package_versions(find_links, Lower(r.name), config, state)

\* ------------------------------------------------------------ the selection

\* the gate without the exemption of the installed version
ApplicableGatesInstalled(found, r, allow_pre) ==
    /\ SpecContains(r.specs, found.version)
    /\ \/ ~prerelease(found)
       \/ allow_pre \/ r.prereleases

\* the loop that narrows all_versions to applicable_versions keeps `found`
Applicable(found, r, allow_pre) ==
    /\ SpecContains(r.specs, found.version)
    /\ \/ ~prerelease(found)
       \/ allow_pre \/ r.prereleases
       \/ currently_installed(found)

ApplicableVersions(versions, r, allow_pre) ==
    SelectSeq(versions, LAMBDA found : Applicable(found, r, allow_pre))

\* the failure raised without the two warnings
RaiseNoWarnings(kind, message, state) ==
    [kind |-> kind, link |-> NoLink, message |-> message,
     warn_external |-> FALSE, warn_unverified |-> FALSE, deprecation |-> FALSE]

Raise(kind, message, state) ==
    [kind |-> kind, link |-> NoLink, message |-> message,
     warn_external |-> state.need_warn_external /\ message # "",
     warn_unverified |-> state.need_warn_unverified /\ message # "",
     deprecation |-> FALSE]

Return(kind, link) ==
    [kind |-> kind, link |-> link, message |-> "",
     warn_external |-> FALSE, warn_unverified |-> FALSE,
     deprecation |-> link.regex]

\* "if not upgrade and existing_applicable": the branch reads
\* applicable_versions.currently_installed, an attribute a list does not have
ExistingApplicable(applicable) ==
    \E i \in 1..Len(applicable) : currently_installed(applicable[i])

AlreadySatisfied(applicable, state) == Raise("AttributeError", "", state)

\* from the sorted applicable_versions to the outcome of the call
Choose(applicable, u, state) ==
    IF ~u /\ ExistingApplicable(applicable)
    THEN AlreadySatisfied(applicable, state)
    ELSE IF applicable = <<>>
    THEN Raise("DistributionNotFound", "no_match", state)
    ELSE IF currently_installed(applicable[1])
    THEN Raise("BestVersionAlreadyInstalled", "", state)
    ELSE Return("link", applicable[1].link)

\* "if not found_versions and not page_versions and not dependency_versions
\*  and not file_versions"
NoneFound(file, found, page, dependency) ==
    found = <<>> /\ page = <<>> /\ dependency = <<>> /\ file = <<>>

\* "this is an intentional priority ordering"
AllVersions(installed, file, found, page, dependency) ==
    installed \o file \o found \o page \o dependency

\* find_requirement once the four pools are filled.  pools keeps the pools as
\* they were discovered; all_versions holds the file pool sorted.
Select(r, u, file, found, page, dependency, allow_pre, state) ==
    LET file_sorted == sort(file)
        all == AllVersions(InstalledFound(r), file_sorted.versions, found, page,
                           dependency)
        narrowed == ApplicableVersions(all, r, allow_pre)
        applicable == sort(narrowed)
        raw == [file |-> file, found |-> found, page |-> page,
                dependency |-> dependency]
    IN  IF NoneFound(file, found, page, dependency)
        THEN [result |-> Raise("DistributionNotFound", "none_at_all", state),
              pools |-> raw, all_versions |-> <<>>, applicable_versions |-> <<>>]
        ELSE IF file_sorted.error # "ok"
        THEN [result |-> Raise(file_sorted.error, "", state),
              pools |-> raw, all_versions |-> <<>>, applicable_versions |-> <<>>]
        ELSE IF applicable.error # "ok"
        THEN [result |-> Raise(applicable.error, "", state),
              pools |-> raw, all_versions |-> all, applicable_versions |-> narrowed]
        ELSE [result |-> Choose(applicable.versions, u, state),
              pools |-> raw, all_versions |-> all,
              applicable_versions |-> applicable.versions]

\* ------------------------------------------------------------ the locations

Pypi == "https://pypi/simple/"
Mirror == "http://mirror/simple/"

\* posixpath.join(url, url_name), with a trailing slash
mkurl_pypi_url(url, url_name) ==
    IF url = Pypi
    THEN CASE url_name = "Foo" -> "https://pypi/simple/Foo/"
           [] url_name = "foo" -> "https://pypi/simple/foo/"
           [] OTHER -> "https://pypi/simple/FOO/"
    ELSE CASE url_name = "Foo" -> "http://mirror/simple/Foo/"
           [] url_name = "foo" -> "http://mirror/simple/foo/"
           [] OTHER -> "http://mirror/simple/FOO/"

\* posixpath.join(main_index_url.url, version), for the version "1.0"
JoinVersion(url, version) ==
    CASE url = "https://pypi/simple/Foo/" -> "https://pypi/simple/Foo/1.0"
      [] url = "https://pypi/simple/foo/" -> "https://pypi/simple/foo/1.0"
      [] url = "https://pypi/simple/FOO/" -> "https://pypi/simple/FOO/1.0"
      [] url = "http://mirror/simple/Foo/" -> "http://mirror/simple/Foo/1.0"
      [] url = "http://mirror/simple/foo/" -> "http://mirror/simple/foo/1.0"
      [] OTHER -> "http://mirror/simple/FOO/1.0"

\* the main index searched even when no index URL is given
StartLocationsDefaultIndex(iu, fl, url_name) ==
    [i \in 1..(IF iu = <<>> THEN 1 ELSE Len(iu)) |->
       mkurl_pypi_url(IF iu = <<>> THEN Pypi ELSE iu[i], url_name)] \o
    [i \in 1..Len(fl) |-> fl[i].url]

\* "[mkurl_pypi_url(url) for url in self.index_urls] + self.find_links", as URLs
StartLocations(iu, fl, url_name) ==
    [i \in 1..Len(iu) |-> mkurl_pypi_url(iu[i], url_name)] \o
    [i \in 1..Len(fl) |-> fl[i].url]

\* _sort_locations: the archive files found under the locations; `listing` is
\* what the file system holds there
FileLocations(locations, listing) ==
    IF locations = <<>> THEN <<>> ELSE listing

\* path_to_url quotes "#": the URL of a local file has no fragment
FileLinks == {l \in UrlLinks : ~l.egg}

\* ---------------------------------------------------------- the page walker

\* rel-links a page can carry: Link(url, page, trusted=False)
RelUrls == {"http://home/foo", "https://pypi/simple/Foo/"}

\* rel-links scraped from one page, at most
MaxRel == 1

Location(url, trusted) == [url |-> url, trusted |-> trusted]

\* what HTMLPage.get_page gives: no page, or a page with anchors and rel-links
NoPage == [ok |-> FALSE, links |-> <<>>, rel_links |-> <<>>]

Pages(n) ==
    {NoPage} \cup
    [ok : {TRUE}, links : SeqsUpTo(PageLinks, n),
     rel_links : SeqsUpTo({Location(u, "no") : u \in RelUrls}, MaxRel)]

\* how a fetch can end: the page arrives as HTML, the URL has a VCS scheme,
\* the HEAD probe of an archive-like URL or the GET fails, or the content is
\* not HTML
FetchFailures ==
    {"head_http_error", "head_connection_error", "head_timeout",
     "http_error", "http_404", "connection_error", "timeout"}
FetchKinds == {"ok", "vcs_scheme", "archive_not_html", "not_html"} \cup FetchFailures

\* get_page with every failure handed on to the caller
get_pagePropagates(kind, page) ==
    IF kind = "ok" THEN [raised |-> "none", page |-> page]
    ELSE IF kind \in FetchFailures THEN [raised |-> kind, page |-> NoPage]
    ELSE [raised |-> "none", page |-> NoPage]

\* HTMLPage.get_page: the page, or None; requests.HTTPError, ConnectionError
\* and Timeout end in _handle_fail and None
get_page(kind, page) ==
    IF kind = "ok" THEN [raised |-> "none", page |-> page]
    ELSE [raised |-> "none", page |-> NoPage]

\* anchors on the root page of the index, at most
MaxAnchors == 2

\* the root page of an index: the basenames of its anchors, in page order
Basenames == {"foo", "FOO", "bar"}
RootPage(bases) == [ok |-> TRUE, links |-> bases, rel_links |-> <<>>]

None == "<None>"

\* the first basename of the root page that normalizes to the name, or None
RECURSIVE FirstMatch(_, _)
FirstMatch(bases, norm_name) ==
    IF bases = <<>> THEN None
    ELSE IF NormalizeName(Head(bases)) = norm_name THEN Head(bases)
    ELSE FirstMatch(Tail(bases), norm_name)

\* PackageFinder._find_url_name: fetch the root page of the index
_find_url_name(kind, root, url_name) ==
    LET page == get_page(kind, root).page
    IN  IF ~page.ok THEN None
        ELSE FirstMatch(page.links, NormalizeName(url_name))

\* url_name once the main index page was asked for: "if page is None:
\* url_name = self._find_url_name(...) or req.url_name"
UrlName(iu, r, main_kind, root_kind, root) ==
    IF iu # <<>> /\ ~get_page(main_kind, RootPage(<<>>)).page.ok
    THEN LET found == _find_url_name(root_kind, root, r.name)
         IN  IF found # None THEN found ELSE r.name
    ELSE r.name

\* InstallRequirement.absolute_versions: the versions of the "==" specifiers
absolute_versions(r) ==
    IF r.specs # <<>> /\ r.specs[1] = "==" THEN <<r.specs[2]>> ELSE <<>>

\* find_requirement lines 219-228: the locations, the version hints in front;
\* main_index_url was made from req.url_name before the name was looked up
Locations(iu, fl, r, url_name) ==
    LET hints == IF iu # <<>>
                 THEN [i \in 1..Len(absolute_versions(r)) |->
                         JoinVersion(mkurl_pypi_url(iu[1], r.name),
                                     absolute_versions(r)[i])]
                 ELSE <<>>
    IN  hints \o StartLocations(iu, fl, url_name)

\* the walker with no seen-set
NeverSeen(location, seen_urls) == FALSE

\* "if location in seen: continue"
AlreadySeen(location, seen_urls) == location.url \in seen_urls

\* the checks of one rel-link
RelExternalBlocked(normalized, config) ==
    normalized \notin config.allow_external /\ ~config.allow_all_external

RelUntrustedBlocked(link, normalized, config) ==
    link.trusted = "no" /\ normalized \notin config.allow_unverified

\* the two checks in the other order
RECURSIVE RelLinksUnverifiedFirst(_, _, _, _)
RelLinksUnverifiedFirst(links, normalized, config, acc) ==
    IF links = <<>> THEN acc
    ELSE LET link == Head(links)
             next ==
               IF RelUntrustedBlocked(link, normalized, config)
               THEN [acc EXCEPT !.need_warn_unverified = TRUE]
               ELSE IF RelExternalBlocked(normalized, config)
               THEN [acc EXCEPT !.need_warn_external = TRUE]
               ELSE [acc EXCEPT !.appended = Append(@, link)]
         IN  RelLinksUnverifiedFirst(Tail(links), normalized, config, next)

\* "for link in page.rel_links()": the flags and the locations appended
RECURSIVE RelLinks(_, _, _, _)
RelLinks(links, normalized, config, acc) ==
    IF links = <<>> THEN acc
    ELSE LET link == Head(links)
             next ==
               IF RelExternalBlocked(normalized, config)
               THEN [acc EXCEPT !.need_warn_external = TRUE]
               ELSE IF RelUntrustedBlocked(link, normalized, config)
               THEN [acc EXCEPT !.need_warn_unverified = TRUE]
               ELSE [acc EXCEPT !.appended = Append(@, link)]
         IN  RelLinks(Tail(links), normalized, config, next)

\* --------------------------------------------- insecure-transport warnings

LOCAL_HOSTNAMES == {"localhost", "127.0.0.1"}
INSECURE_SCHEMES == {"http"}

\* the URLs under an index: the project pages and the version pages
IndexUrls(index) ==
    LET projects == {mkurl_pypi_url(index, n) : n \in {"Foo", "foo", "FOO"}}
    IN  projects \cup {JoinVersion(u, "1.0") : u \in projects}

\* urllib_parse.urlparse(url).scheme and .hostname, for the URLs of the model
UrlScheme(url) == IF url \in IndexUrls(Pypi) THEN "https" ELSE "http"

UrlHost(url) ==
    CASE url \in IndexUrls(Pypi) -> "pypi"
      [] url \in IndexUrls(Mirror) -> "mirror"
      [] url = NotAFile.url -> "localhost"
      [] url = Zip20.url -> "b"
      [] OTHER -> "a"

\* _warn_about_insecure_transport_scheme: TRUE iff it writes a warning
_warn_about_insecure_transport_scheme(location) ==
    /\ UrlScheme(location.url) \in INSECURE_SCHEMES
    /\ UrlHost(location.url) \notin LOCAL_HOSTNAMES

\* "for location in locations: self._warn_about_insecure_transport_scheme(...)"
InsecureWarnings(locations) ==
    SelectSeq(locations, _warn_about_insecure_transport_scheme)

\* ------------------------------------------------------------------ actions

\* PackageFinder.add_dependency_links(links)
AddDependencyLinks ==
    /\ pc = "idle"
    /\ dependency_links = <<>>
    /\ \E links \in SeqsUpTo(UrlLinks, MaxLinks - Len(find_links)) :
         /\ links # <<>>
         /\ dependency_links' =
              IF process_dependency_links THEN dependency_links \o links
              ELSE dependency_links
    /\ UNCHANGED <<find_links, index_urls, logged_links, use_wheel, allow_external,
                   allow_unverified, allow_all_external, need_warn_external,
                   need_warn_unverified, allow_all_prereleases,
                   process_dependency_links, call_vars, flt>>

\* the root pages a call of the whole finder is given: no anchor, or foo/
CallAnchors == SeqsUpTo({"foo"}, 1)

\* the url_name a call can end up with, over the ways the main index page and
\* the root page can answer
UrlNames(iu) ==
    {UrlName(iu, NoReq, main_kind, root_kind, RootPage(bases)) :
        main_kind \in FetchKinds, root_kind \in FetchKinds, bases \in CallAnchors}

\* find_requirement up to the find-links pool: the main index page, the
\* locations, then FindLinksFinder(req, self, self).found.  The requirement
\* is drawn when the call finishes; none of Requirements pins a version, so
\* the locations carry no version hint.
StartFind ==
    /\ pc = "idle"
    /\ \E url_name \in UrlNames(index_urls) :
         LET r == _package_versions(find_links, Lower(ReqName), Config, State)
             own == _package_versions(find_links, Lower(ReqName), Config,
                                      Fresh(State))
             start == Locations(index_urls, find_links, NoReq, url_name)
             given == [i \in 1..Len(start) |-> Location(start[i], "yes")]
             extra == [i \in 1..Len(dependency_links) |->
                         Location(dependency_links[i].url, "unknown")]
         IN  /\ all_locations' = given \o extra
             /\ found_versions' = r.found
             /\ logged_links' = r.state.logged_links
             /\ need_warn_external' = r.state.need_warn_external
             /\ need_warn_unverified' = r.state.need_warn_unverified
             /\ ignored' = Noted(NoIgnored, own.state)
    /\ seen' = {}
    /\ page_versions' = <<>>
    /\ nlinks' = Len(find_links) + Len(dependency_links)
    /\ pc' = "pages"
    /\ UNCHANGED <<find_links, index_urls, dependency_links, use_wheel,
                   allow_external, allow_unverified, allow_all_external,
                   allow_all_prereleases, process_dependency_links,
                   req, upgrade, pools, all_versions, applicable_versions,
                   result, flt>>

\* one turn of "for page in self._get_pages(locations, req)": the walker pops
\* a location, fetches it, the caller filters the page's anchors, and the
\* walker goes through the page's rel-links
GetPage ==
    /\ pc = "pages"
    /\ all_locations # <<>>
    /\ LET location == Head(all_locations) IN
       IF AlreadySeen(location, seen)
       THEN /\ all_locations' = Tail(all_locations)
            /\ UNCHANGED <<seen, page_versions, nlinks, logged_links,
                           need_warn_external, need_warn_unverified, ignored>>
       ELSE \E page \in Pages(MaxLinks - nlinks) :
              LET r == _package_versions(page.links, Lower(ReqName), Config, State)
                  rel == RelLinks(page.rel_links, Lower(NormalizeName(ReqName)), Config,
                                  [need_warn_external |-> r.state.need_warn_external,
                                   need_warn_unverified |-> r.state.need_warn_unverified,
                                   appended |-> <<>>])
                  own == _package_versions(page.links, Lower(ReqName), Config,
                                           Fresh(State))
                  ownrel == RelLinks(page.rel_links, Lower(NormalizeName(ReqName)),
                                     Config,
                                     [need_warn_external |-> own.state.need_warn_external,
                                      need_warn_unverified |-> own.state.need_warn_unverified,
                                      appended |-> <<>>])
              IN  /\ seen' = seen \cup {location.url}
                  /\ all_locations' = Tail(all_locations) \o rel.appended
                  /\ page_versions' = page_versions \o r.found
                  /\ nlinks' = nlinks + Len(page.links)
                  /\ logged_links' = r.state.logged_links
                  /\ need_warn_external' = rel.need_warn_external
                  /\ need_warn_unverified' = rel.need_warn_unverified
                  /\ ignored' = Noted(ignored, ownrel)
    /\ UNCHANGED <<find_links, index_urls, dependency_links, use_wheel,
                   allow_external, allow_unverified, allow_all_external,
                   allow_all_prereleases, process_dependency_links,
                   pc, found_versions, req, upgrade, pools, all_versions,
                   applicable_versions, result, flt>>

\* the rest of find_requirement: the dependency and file pools, then the
\* selection among the candidates of `requirement`
FinishFind ==
    /\ pc = "pages"
    /\ all_locations = <<>>
    /\ \E listing \in SeqsUpTo(FileLinks, MaxLinks - nlinks),
          r \in Requirements, u \in BOOLEAN :
         /\ LET dep == _package_versions(dependency_links, Lower(r.name),
                                         Config, State)
                files == FileLocations(
                           StartLocations(index_urls, find_links, r.name) \o
                           [i \in 1..Len(dependency_links) |-> dependency_links[i].url],
                           listing)
                file == _package_versions(files, Lower(r.name), Config, dep.state)
                own == _package_versions(_sort_links(dependency_links) \o _sort_links(files),
                                         Lower(r.name), Config, Fresh(State))
                sel == Select(r, u, file.found, found_versions, page_versions,
                              dep.found, allow_all_prereleases, file.state)
            IN  /\ logged_links' = file.state.logged_links
                /\ need_warn_external' = file.state.need_warn_external
                /\ need_warn_unverified' = file.state.need_warn_unverified
                /\ ignored' = Noted(ignored, own.state)
                /\ req' = r
                /\ upgrade' = u
                /\ pools' = sel.pools
                /\ all_versions' = sel.all_versions
                /\ applicable_versions' = sel.applicable_versions
                /\ result' = sel.result
                /\ nlinks' = 0
    /\ pc' = "done"
    /\ found_versions' = <<>>
    /\ page_versions' = <<>>
    /\ seen' = {}
    /\ UNCHANGED <<find_links, index_urls, dependency_links, use_wheel,
                   allow_external, allow_unverified, allow_all_external,
                   allow_all_prereleases, process_dependency_links,
                   all_locations, flt>>

Next == AddDependencyLinks \/ StartFind \/ GetPage \/ FinishFind

Spec == Init /\ [][Next]_vars

\* --------------------------------------------- successive calls on one finder

\* find_packages_latests_versions: one finder for every installed distribution
InitCalls ==
    /\ \E pdl \in BOOLEAN :
         PackageFinderInit(<<NotAFile>>, <<Pypi>>, TRUE, {}, {}, FALSE, FALSE, pdl)
    /\ CallInit
    /\ flt = NoFilter

\* the loop goes to the next distribution: the locals of the call are gone,
\* the finder is as the call left it
NextCall ==
    /\ pc = "done"
    /\ pc' = "idle"
    /\ all_locations' = <<>>
    /\ seen' = {}
    /\ found_versions' = <<>>
    /\ page_versions' = <<>>
    /\ nlinks' = 0
    /\ req' = NoReq
    /\ upgrade' = FALSE
    /\ pools' = NoPools
    /\ all_versions' = <<>>
    /\ applicable_versions' = <<>>
    /\ result' = NoResult
    /\ ignored' = NoIgnored
    /\ UNCHANGED <<finder_vars, flt>>

NextCalls == Next \/ NextCall

SpecCalls == InitCalls /\ [][NextCalls]_vars

\* ------------------------------------------------- the link filter on its own

\* every link the filter tells apart; the wheel fields vary for .whl names only
WheelParts ==
    {<<"invalid", -1, FALSE>>} \cup
    {<<"ok", t, b>> : t \in {-1, 0}, b \in BOOLEAN}

FileParts ==
    {<<e, "ok", -1, FALSE>> : e \in {"", ".tar.gz", ".zip", ".exe"}} \cup
    {<<wheel_ext, w[1], w[2], w[3]>> : w \in WheelParts}

LinkSpace ==
    {[url |-> "http://h/f", egg |-> egg, ext |-> f[1], macosx |-> macosx,
      proj |-> proj, ver |-> "1.0", pysuf |-> pysuf, whl |-> f[2],
      tagidx |-> f[3], pypibin |-> f[4], internal |-> internal,
      verifiable |-> verifiable, regex |-> FALSE] :
        egg \in BOOLEAN, f \in FileParts, macosx \in BOOLEAN,
        proj \in {"Foo", "bar", ""}, pysuf \in {"", "mismatch"},
        internal \in Tri, verifiable \in Tri}

\* the finder settings the filter reads, as __init__ leaves them
ConfigSpace ==
    {[use_wheel |-> uw,
      allow_external |-> {NormalizeName(n) : n \in ae \cup au},
      allow_unverified |-> {NormalizeName(n) : n \in au},
      allow_all_external |-> aae] :
        uw \in BOOLEAN, ae \in SUBSET {ReqName}, au \in SUBSET {ReqName},
        aae \in BOOLEAN}

StateSpace(link) ==
    {FilterState(ll, nwe, nwu) :
        ll \in {{}, {link.url}}, nwe \in BOOLEAN, nwu \in BOOLEAN}

NoFilterResult == FilterResult(<<>>, FilterState({}, FALSE, FALSE), "", FALSE)

FilterInit ==
    /\ PackageFinderInit(<<>>, <<>>, TRUE, {}, {}, FALSE, FALSE, FALSE)
    /\ CallInit
    /\ \E link \in LinkSpace, config \in ConfigSpace :
         \E state \in StateSpace(link) :
           flt = [phase |-> "ready", link |-> link, search_name |-> Lower(ReqName),
                  config |-> config, state |-> state,
                  first |-> NoFilterResult, second |-> NoFilterResult]

\* _link_package_versions(link, search_name, config, state)
FilterOnce ==
    /\ flt.phase = "ready"
    /\ flt' = [flt EXCEPT
                 !.phase = "once",
                 !.first = _link_package_versions(flt.link, flt.search_name,
                                                  flt.config, flt.state)]
    /\ UNCHANGED <<finder_vars, call_vars>>

\* the same call again, on the state the first call left
FilterTwice ==
    /\ flt.phase = "once"
    /\ flt' = [flt EXCEPT
                 !.phase = "twice",
                 !.second = _link_package_versions(flt.link, flt.search_name,
                                                   flt.config, flt.first.state)]
    /\ UNCHANGED <<finder_vars, call_vars>>

FilterNext == FilterOnce \/ FilterTwice

SpecFilter == FilterInit /\ [][FilterNext]_vars

\* ---------------------------------------------- the rel-link loop on its own

\* rel-links of one page in the rel-link loop on its own, at most
MaxRelLen == 2

\* Link.trusted is a tri-state; rel_links() makes every link with trusted=False
RelSpace == {Location(u, t) : u \in RelUrls, t \in Tri}

NoRelOut == [need_warn_external |-> FALSE, need_warn_unverified |-> FALSE,
             appended |-> <<>>]

RelInit ==
    /\ PackageFinderInit(<<>>, <<>>, TRUE, {}, {}, FALSE, FALSE, FALSE)
    /\ CallInit
    /\ \E links \in SeqsUpTo(RelSpace, MaxRelLen), config \in ConfigSpace,
          nwe \in BOOLEAN, nwu \in BOOLEAN :
         flt = [phase |-> "rel_ready", rel_links |-> links,
                normalized |-> Lower(NormalizeName(ReqName)), config |-> config,
                acc |-> [need_warn_external |-> nwe, need_warn_unverified |-> nwu,
                         appended |-> <<>>],
                out |-> NoRelOut]

\* the loop over page.rel_links() of _get_pages
RelOnce ==
    /\ flt.phase = "rel_ready"
    /\ flt' = [flt EXCEPT
                 !.phase = "rel_done",
                 !.out = RelLinks(flt.rel_links, flt.normalized, flt.config, flt.acc)]
    /\ UNCHANGED <<finder_vars, call_vars>>

RelNext == RelOnce

SpecRel == RelInit /\ [][RelNext]_vars

\* ------------------------------------------- the url_name lookup on its own

IndexUrlSpace == {<<>>, <<Pypi>>, <<Pypi, Mirror>>}

\* the requirement as typed, with or without a pinned version
NameRequirements ==
    [name : {ReqName}, satisfied_by : {NoVersion},
     specs : {<<>>, <<"==", "1.0">>}, prereleases : {FALSE}]

NoNameOut == [url_name |-> None, locations |-> <<>>]

NameInit ==
    /\ PackageFinderInit(<<>>, <<>>, TRUE, {}, {}, FALSE, FALSE, FALSE)
    /\ CallInit
    /\ \E iu \in IndexUrlSpace, r \in NameRequirements,
          main_kind \in FetchKinds, root_kind \in FetchKinds,
          bases \in SeqsUpTo(Basenames, MaxAnchors) :
         flt = [phase |-> "name_ready", index_urls |-> iu, req |-> r,
                main_kind |-> main_kind, root_kind |-> root_kind,
                root |-> RootPage(bases), out |-> NoNameOut]

\* find_requirement lines 202-228
NameOnce ==
    /\ flt.phase = "name_ready"
    /\ LET url_name == UrlName(flt.index_urls, flt.req, flt.main_kind,
                               flt.root_kind, flt.root)
       IN  flt' = [flt EXCEPT
                     !.phase = "name_done",
                     !.out = [url_name |-> url_name,
                              locations |-> Locations(flt.index_urls, <<>>,
                                                      flt.req, url_name)]]
    /\ UNCHANGED <<finder_vars, call_vars>>

NameNext == NameOnce

SpecUrlName == NameInit /\ [][NameNext]_vars

\* -------------------------------------- the url locations and their warnings

WarnLinks == {Sdist10, Sdist20, NotAFile}

NoWarnOut == [locations |-> <<>>, warnings |-> <<>>]

WarnInit ==
    /\ PackageFinderInit(<<>>, <<>>, TRUE, {}, {}, FALSE, FALSE, FALSE)
    /\ CallInit
    /\ \E iu \in IndexUrlSpace, fl \in SeqsUpTo(WarnLinks, 2),
          dl \in SeqsUpTo({Zip20}, 1), r \in NameRequirements,
          url_name \in {"Foo", "foo"} :
         flt = [phase |-> "warn_ready", index_urls |-> iu, find_links |-> fl,
                dependency_links |-> dl, req |-> r, url_name |-> url_name,
                out |-> NoWarnOut]

\* find_requirement lines 219-244: the url locations, those of the dependency
\* links behind, and one call of the warning function per location
WarnOnce ==
    /\ flt.phase = "warn_ready"
    /\ LET urls == Locations(flt.index_urls, flt.find_links, flt.req, flt.url_name)
           locations == [i \in 1..Len(urls) |-> Location(urls[i], "yes")] \o
                        [i \in 1..Len(flt.dependency_links) |->
                           Location(flt.dependency_links[i].url, "unknown")]
       IN  flt' = [flt EXCEPT
                     !.phase = "warn_done",
                     !.out = [locations |-> locations,
                              warnings |-> InsecureWarnings(locations)]]
    /\ UNCHANGED <<finder_vars, call_vars>>

WarnNext == WarnOnce

SpecWarn == WarnInit /\ [][WarnNext]_vars

\* ------------------------------------------------ the page walker on its own

\* the locations the walker on its own is given or finds as rel-links: a page,
\* the same page with a fragment, and an index page
Homepage == "http://home/foo"
WalkUrls == {Homepage, "http://home/foo#egg=foo", "https://pypi/simple/Foo/"}

\* get_page: url.split('#', 1)[0]
StripFragment(url) == IF url = "http://home/foo#egg=foo" THEN Homepage ELSE url

\* what one fetch gives: how it ended and, for a page, its rel-links
WalkFetches ==
    [kind : {"ok"},
     page : [ok : {TRUE}, links : {<<>>},
             rel_links : SeqsUpTo({Location(u, "no") : u \in WalkUrls}, MaxRel)]]
    \cup [kind : FetchKinds \ {"ok"}, page : {NoPage}]

\* a finder with any of the hosting settings, then
\* "all_locations = list(locations); seen = set()"
WalkInit ==
    /\ \E ae \in SUBSET {ReqName}, au \in SUBSET {ReqName}, aae \in BOOLEAN :
         PackageFinderInit(<<>>, <<>>, TRUE, ae, au, aae, FALSE, FALSE)
    /\ CallInit
    /\ \E start \in SeqsUpTo({Location(u, "yes") : u \in WalkUrls}, 2) :
         flt = [phase |-> "walk", start |-> start, config |-> Config,
                all_locations |-> start, seen |-> {},
                fetched |-> <<>>, yielded |-> <<>>, raised |-> "none",
                need_warn_external |-> FALSE, need_warn_unverified |-> FALSE]

\* one turn of the while loop of _get_pages
WalkStep ==
    /\ flt.phase = "walk"
    /\ flt.raised = "none"
    /\ flt.all_locations # <<>>
    /\ LET location == Head(flt.all_locations) IN
       IF AlreadySeen(location, flt.seen)
       THEN flt' = [flt EXCEPT !.all_locations = Tail(@)]
       ELSE \E fetch \in WalkFetches :
              LET got == get_page(fetch.kind, fetch.page)
                  url == StripFragment(location.url)
                  rel == RelLinks(got.page.rel_links,
                                  Lower(NormalizeName(ReqName)), flt.config,
                                  [need_warn_external |-> flt.need_warn_external,
                                   need_warn_unverified |-> flt.need_warn_unverified,
                                   appended |-> <<>>])
                  log == Append(flt.fetched,
                                [url |-> url, kind |-> fetch.kind,
                                 yielded |-> got.page.ok,
                                 enqueued |-> rel.appended])
              IN  IF got.raised # "none"
                  THEN flt' = [flt EXCEPT !.all_locations = Tail(@),
                                          !.seen = @ \cup {location.url},
                                          !.fetched = log,
                                          !.raised = got.raised]
                  ELSE IF ~got.page.ok
                  THEN flt' = [flt EXCEPT !.all_locations = Tail(@),
                                          !.seen = @ \cup {location.url},
                                          !.fetched = log]
                  ELSE flt' = [flt EXCEPT
                                 !.all_locations = Tail(@) \o rel.appended,
                                 !.seen = @ \cup {location.url},
                                 !.fetched = log,
                                 !.yielded = Append(@, url),
                                 !.need_warn_external = rel.need_warn_external,
                                 !.need_warn_unverified = rel.need_warn_unverified]
    /\ UNCHANGED <<finder_vars, call_vars>>

WalkNext == WalkStep

SpecWalk == WalkInit /\ [][WalkNext]_vars

\* the generator is driven to its end by the for loop of find_requirement, and
\* every fetch returns
SpecWalkFair == WalkInit /\ [][WalkNext]_vars /\ WF_vars(WalkStep)

\* ===================================================================== claims

\* the candidate passes the specifier and the pre-release gate of the call
ClaimApplicable(c) ==
    /\ SpecContains(req.specs, c.version)
    /\ \/ ~IsPrerelease(c.version)
       \/ allow_all_prereleases
       \/ req.prereleases
       \/ c.link = INSTALLED_VERSION

\* the candidates in the order they were discovered: installed, file,
\* find-links, page, dependency
Discovered ==
    InstalledFound(req) \o pools.file \o pools.found \o pools.page
    \o pools.dependency

NothingDiscovered ==
    pools.file = <<>> /\ pools.found = <<>> /\ pools.page = <<>>
    /\ pools.dependency = <<>>

InstalledSatisfies ==
    req.satisfied_by # NoVersion /\ SpecContains(req.specs, req.satisfied_by)

\* the call went through the final sort
Sorted ==
    /\ pc = "done"
    /\ \/ result.kind \in {"link", "BestVersionAlreadyInstalled", "AttributeError"}
       \/ result.message = "no_match"

\* C1: a returned link is the link of a discovered candidate that is not the
\* installed one, satisfies the specifier, passes the pre-release gate, and no
\* applicable candidate (the installed one included) has a greater parsed
\* version.
C1_ReturnedLinkIsBestApplicable ==
    (pc = "done" /\ result.kind = "link") =>
        \E i \in 1..Len(all_versions) :
            /\ all_versions[i].link = result.link
            /\ all_versions[i].link # INSTALLED_VERSION
            /\ SpecContains(req.specs, all_versions[i].version)
            /\ IsPrerelease(all_versions[i].version)
                 => (allow_all_prereleases \/ req.prereleases)
            /\ \A j \in 1..Len(all_versions) :
                 ClaimApplicable(all_versions[j]) =>
                   ParsedVersion(all_versions[j].version)
                     <= ParsedVersion(all_versions[i].version)

\* a link is returned although an installed version is applicable and a
\* newer release is offered but ruled out by the specifier or the gate
C1_Witness ==
    /\ pc = "done" /\ result.kind = "link"
    /\ req.satisfied_by # NoVersion
    /\ \E i, j \in 1..Len(all_versions) :
         /\ all_versions[i].link = result.link
         /\ ~ClaimApplicable(all_versions[j])
         /\ ParsedVersion(all_versions[j].version)
              > ParsedVersion(all_versions[i].version)

\* C2: with upgrade=false and an installed version that satisfies the
\* specifier, the call returns null: no link, no error.  Stated for the calls
\* that discovered a candidate, the ones that reach the selection.
C2_SatisfiedReturnsNull ==
    (pc = "done" /\ ~upgrade /\ InstalledSatisfies /\ ~NothingDiscovered) =>
        result.kind = "null"

\* C3: with upgrade=true, an installed version that satisfies the specifier, a
\* candidate discovered and no applicable discovered candidate newer than the
\* installed one, the call raises BestVersionAlreadyInstalled.
C3_BestAlreadyInstalled ==
    ( /\ pc = "done" /\ upgrade /\ InstalledSatisfies /\ ~NothingDiscovered
      /\ \A i \in 1..Len(Discovered) :
           ClaimApplicable(Discovered[i]) =>
             ParsedVersion(Discovered[i].version) <= ParsedVersion(req.satisfied_by) )
    => result.kind = "BestVersionAlreadyInstalled"

\* C4: a call ends by returning a link, returning null, or raising
\* DistributionNotFound or BestVersionAlreadyInstalled; nothing else escapes.
C4_OnlyDeclaredOutcomes ==
    pc = "done" =>
        result.kind \in {"link", "null", "DistributionNotFound",
                         "BestVersionAlreadyInstalled"}

\* C5: when the find-links, page, dependency and file pools are all empty the
\* call raises DistributionNotFound ("no distributions at all") and reports
\* each warning iff its flag is set, whatever is installed and whatever
\* upgrade is.
C5_NothingFoundRaises ==
    (pc = "done" /\ NothingDiscovered) =>
        /\ result.kind = "DistributionNotFound"
        /\ result.message = "none_at_all"
        /\ result.warn_external = need_warn_external
        /\ result.warn_unverified = need_warn_unverified

\* nothing found while an installed version satisfies the requirement, and an
\* externally hosted link was ignored on the way
C5_Witness ==
    /\ pc = "done" /\ NothingDiscovered
    /\ InstalledSatisfies /\ ~upgrade
    /\ need_warn_external /\ ~need_warn_unverified
    /\ result.warn_external

\* C6 as stated: on a finder with no index URL and no find-links the call
\* fails with DistributionNotFound ("no distributions at all").
C6_NoSourcesOriginal ==
    (pc = "done" /\ index_urls = <<>> /\ find_links = <<>>) =>
        (result.kind = "DistributionNotFound" /\ result.message = "none_at_all")

\* C6 amended: on a finder with no index URL, no find-links and no dependency
\* links the call fails with DistributionNotFound ("no distributions at all").
C6_NoSources ==
    (pc = "done" /\ index_urls = <<>> /\ find_links = <<>>
     /\ dependency_links = <<>>) =>
        (result.kind = "DistributionNotFound" /\ result.message = "none_at_all")

\* such a finder, asked for a requirement that is installed and satisfied
C6_Witness ==
    /\ pc = "done" /\ index_urls = <<>> /\ find_links = <<>>
    /\ dependency_links = <<>> /\ process_dependency_links
    /\ InstalledSatisfies
    /\ result.kind = "DistributionNotFound"

\* C7: a candidate is applicable iff its version satisfies the specifier and
\* it is no pre-release, or pre-releases are allowed (finder or requirement),
\* or it is the installed one; with pre-releases disallowed no pre-release
\* link is returned; and when every candidate is a pre-release that is not
\* installed the call fails with DistributionNotFound ("no matching version").
C7_PrereleaseGate ==
    pc = "done" =>
        /\ \A i \in 1..Len(all_versions) :
             (\E j \in 1..Len(applicable_versions) :
                 applicable_versions[j] = all_versions[i])
               <=> ClaimApplicable(all_versions[i])
        /\ \A j \in 1..Len(applicable_versions) :
             \E i \in 1..Len(all_versions) :
                 applicable_versions[j] = all_versions[i]
        /\ (result.kind = "link" /\ ~allow_all_prereleases /\ ~req.prereleases) =>
             \A i \in 1..Len(all_versions) :
                 all_versions[i].link = result.link =>
                   ~IsPrerelease(all_versions[i].version)
        /\ ( /\ ~allow_all_prereleases /\ ~req.prereleases
             /\ all_versions # <<>>
             /\ \A i \in 1..Len(all_versions) :
                  /\ IsPrerelease(all_versions[i].version)
                  /\ all_versions[i].link # INSTALLED_VERSION )
           => (result.kind = "DistributionNotFound" /\ result.message = "no_match")

\* offered 1.0 and 2.0a1 with pre-releases disallowed: 1.0 is selected
C7_Witness ==
    /\ pc = "done" /\ ~allow_all_prereleases /\ ~req.prereleases
    /\ req.satisfied_by = NoVersion /\ req.specs = <<>>
    /\ Len(all_versions) = 2
    /\ result.kind = "link"
    /\ \E i, j \in 1..2 : /\ all_versions[i].version = "1.0"
                          /\ all_versions[j].version = "2.0a1"
                          /\ result.link = all_versions[i].link

\* the candidates of `versions` whose sort key is k, in order
WithKey(versions, k) == SelectSeq(versions, LAMBDA c : _sort_key(c) = k)

ApplicableDiscovered == SelectSeq(Discovered, ClaimApplicable)

\* C8: the sort is stable: applicable candidates of equal key stay in the order
\* installed, file, find-links, page, dependency, discovery order within a
\* pool; so of several candidates tied for the best key the link returned is
\* that of the first in this order.
C8_StableSort ==
    Sorted =>
        /\ \A i \in 1..Len(applicable_versions) :
             LET k == _sort_key(applicable_versions[i])
             IN  WithKey(applicable_versions, k) = WithKey(ApplicableDiscovered, k)
        /\ result.kind = "link" =>
             LET best == WithKey(ApplicableDiscovered, _sort_key(applicable_versions[1]))
             IN  result.link = best[1].link

\* two different links tie for the best key; the one returned was found in the
\* find-links pool, the other in a later pool
C8_Witness ==
    /\ pc = "done" /\ result.kind = "link"
    /\ Len(pools.found) = 1 /\ pools.found[1].link = result.link
    /\ \E c \in {pools.page[i] : i \in 1..Len(pools.page)}
              \cup {pools.dependency[i] : i \in 1..Len(pools.dependency)} :
         /\ c.link # result.link
         /\ ClaimApplicable(c)
         /\ _sort_key(c) = _sort_key(pools.found[1])

\* installed first, then wheels by support_index_min, then source archives
ClaimRank(c) ==
    IF c.link = INSTALLED_VERSION THEN 0
    ELSE IF c.link.ext = wheel_ext THEN 1 + c.link.tagidx
    ELSE 1 + SupportNum

C10_MacosxZipOriginal ==
    (flt.phase = "once" /\ flt.link.macosx /\ flt.link.ext = ".zip") =>
        flt.first.found = <<>>

\* C10 amended: such a link yields no FoundVersion unless it has an egg
\* fragment.
C10_MacosxZipSkipped ==
    (flt.phase = "once" /\ flt.link.macosx /\ flt.link.ext = ".zip"
     /\ ~flt.link.egg) =>
        flt.first.found = <<>>

\* a macosx10 .zip of the right project that nothing else would reject
C10_Witness ==
    /\ flt.phase = "once" /\ flt.link.macosx /\ flt.link.ext = ".zip"
    /\ ~flt.link.egg
    /\ Lower(flt.link.proj) = flt.search_name
    /\ flt.link.internal # "no" /\ flt.link.verifiable # "no"
    /\ flt.link.pysuf = ""
    /\ flt.first.out = "macosx10"

\* the candidates of the four discovered pools
PoolCandidates ==
    {pools.file[i] : i \in 1..Len(pools.file)}
    \cup {pools.found[i] : i \in 1..Len(pools.found)}
    \cup {pools.page[i] : i \in 1..Len(pools.page)}
    \cup {pools.dependency[i] : i \in 1..Len(pools.dependency)}

\* C11: every candidate handed to FoundVersion.sort whose link ends in .whl is
\* a wheel with a valid file name that the interpreter supports, so the sort
\* key never raises UnsupportedWheel (nor InvalidWheelFilename).
C11_OnlySupportedWheelsSorted ==
    pc = "done" =>
        /\ \A c \in PoolCandidates :
             c.link.ext = wheel_ext => (c.link.whl = "ok" /\ c.link.tagidx >= 0)
        /\ result.kind \notin {"UnsupportedWheel", "InvalidWheelFilename"}

\* the filter reached the hosting check: an egg fragment, or a known format
\* that is no macosx10 .zip and, for a wheel, passed the wheel steps; and the
\* project name matched
ClaimReachedHosting(link, search_name, config) ==
    /\ \/ link.egg
       \/ /\ link.ext # ""
          /\ link.ext \in _known_extensions(config.use_wheel)
          /\ ~(link.macosx /\ link.ext = ".zip")
          /\ link.ext = wheel_ext =>
               (link.whl = "ok" /\ link.tagidx >= 0 /\ ~link.pypibin)
    /\ link.proj # "" /\ Lower(link.proj) = Lower(search_name)

ClaimExternalAllowed(search_name, config) ==
    \/ NormalizeName(search_name) \in config.allow_external
    \/ config.allow_all_external

\* C12: a link that reached the hosting check with internal explicitly false is
\* skipped, and need_warn_external set, iff the normalized name is not in
\* allow_external and allow_all_external is false; with internal unknown or
\* true the check never skips the link and never sets need_warn_external.
C12_ExternalCheck ==
    (flt.phase = "once"
     /\ ClaimReachedHosting(flt.link, flt.search_name, flt.config)) =>
        /\ (flt.link.internal = "no"
            /\ ~ClaimExternalAllowed(flt.search_name, flt.config))
             => /\ flt.first.found = <<>>
                /\ flt.first.out = "external"
                /\ flt.first.state.need_warn_external
        /\ (flt.link.internal # "no"
            \/ ClaimExternalAllowed(flt.search_name, flt.config))
             => /\ flt.first.out # "external"
                /\ flt.first.state.need_warn_external
                     = flt.state.need_warn_external

\* an external link, the flag not yet set, skipped for its hosting alone
C12_Witness ==
    /\ flt.phase = "once"
    /\ ClaimReachedHosting(flt.link, flt.search_name, flt.config)
    /\ flt.link.internal = "no" /\ flt.link.verifiable = "yes"
    /\ ~flt.state.need_warn_external
    /\ flt.first.state.need_warn_external
    /\ flt.first.found = <<>>

\* C13: a link that passed the hosting check with verifiable explicitly false
\* is skipped, and need_warn_unverified set, iff the normalized name is not in
\* allow_unverified; allow_external and allow_all_external do not exempt it.
C13_UnverifiableCheck ==
    (flt.phase = "once"
     /\ ClaimReachedHosting(flt.link, flt.search_name, flt.config)
     /\ (flt.link.internal # "no"
         \/ ClaimExternalAllowed(flt.search_name, flt.config))) =>
        /\ (flt.link.verifiable = "no"
            /\ NormalizeName(flt.search_name) \notin flt.config.allow_unverified)
             => /\ flt.first.found = <<>>
                /\ flt.first.out = "unverifiable"
                /\ flt.first.state.need_warn_unverified
        /\ (flt.link.verifiable # "no"
            \/ NormalizeName(flt.search_name) \in flt.config.allow_unverified)
             => /\ flt.first.out # "unverifiable"
                /\ flt.first.state.need_warn_unverified
                     = flt.state.need_warn_unverified

\* an external, unverifiable link on a finder that allows every external host
\* and names the project in allow_external: skipped as unverifiable all the same
C13_Witness ==
    /\ flt.phase = "once"
    /\ ClaimReachedHosting(flt.link, flt.search_name, flt.config)
    /\ flt.link.internal = "no" /\ flt.link.verifiable = "no"
    /\ flt.config.allow_all_external
    /\ ~flt.state.need_warn_unverified
    /\ flt.first.state.need_warn_unverified
    /\ flt.first.found = <<>>

\* the reasons whose debug line the claim C20 lists
ClaimSkipLines ==
    {"not_a_file", "unknown_format", "macosx10", "wrong_project",
     "invalid_wheel", "wrong_project_wheel"}

\* C20: a "skipping" debug line of the filter is written at most once per link:
\* filtering the same link a second time in the same search writes none.
C20_SkipLineOnce ==
    (flt.phase = "twice" /\ flt.first.out \in ClaimSkipLines /\ flt.first.line) =>
        ~flt.second.line

\* the first anchor of the root page whose normalized basename is the
\* normalized url_name, None when there is none
ClaimMatch ==
    LET bases == flt.root.links
        hits == {i \in 1..Len(bases) :
                   NormalizeName(bases[i]) = NormalizeName(flt.req.name)}
    IN  IF flt.root_kind # "ok" \/ hits = {} THEN None
        ELSE bases[CHOOSE i \in hits : \A j \in hits : i <= j]

\* the index locations a name gives: one per index URL, and one per pinned
\* version under the first index URL
ClaimIndexLocations(name) ==
    {mkurl_pypi_url(flt.index_urls[i], name) : i \in 1..Len(flt.index_urls)}
    \cup {JoinVersion(mkurl_pypi_url(flt.index_urls[1], name), "1.0")}

\* C15: when index_urls is nonempty and the main index page answers 404, every
\* index location searched is built from the first anchor of the root page
\* whose normalized basename equals the normalized url_name, and from the
\* original url_name when there is no such anchor or no root page.
C15_UrlNameRediscovery ==
    (flt.phase = "name_done" /\ flt.index_urls # <<>>
     /\ flt.main_kind = "http_404") =>
        LET name == IF ClaimMatch # None THEN ClaimMatch ELSE flt.req.name
        IN  \A i \in 1..Len(flt.out.locations) :
              flt.out.locations[i] \in ClaimIndexLocations(name)

\* C17: each rel-link is checked in this order: external hosting not allowed
\* sets need_warn_external and drops the link; else trusted explicitly false
\* and the name not in allow_unverified sets need_warn_unverified and drops
\* it; else the link goes to the end of the FIFO.  A link dropped by the first
\* check leaves need_warn_unverified as it was.
C17_RelLinkChecks ==
    flt.phase = "rel_done" =>
        LET n == flt.normalized
            external == /\ n \notin flt.config.allow_external
                        /\ ~flt.config.allow_all_external
            unverified(l) == /\ l.trusted = "no"
                             /\ n \notin flt.config.allow_unverified
        IN  /\ flt.out.appended =
                 SelectSeq(flt.rel_links, LAMBDA l : ~external /\ ~unverified(l))
            /\ flt.out.need_warn_external =
                 (flt.acc.need_warn_external \/ (external /\ flt.rel_links # <<>>))
            /\ flt.out.need_warn_unverified =
                 (flt.acc.need_warn_unverified
                  \/ (~external /\ \E i \in 1..Len(flt.rel_links) :
                                      unverified(flt.rel_links[i])))

\* two rel-links on a finder that allows external hosts: the untrusted one is
\* dropped with the unverified flag, the other one is enqueued
C17_Witness ==
    /\ flt.phase = "rel_done" /\ Len(flt.rel_links) = 2
    /\ flt.config.allow_all_external
    /\ flt.rel_links[1].trusted = "no" /\ flt.rel_links[2].trusted = "unknown"
    /\ ~flt.acc.need_warn_unverified /\ flt.out.need_warn_unverified
    /\ ~flt.out.need_warn_external
    /\ flt.out.appended = <<flt.rel_links[2]>>

\* the walker has fetched or yielded no URL twice
NoRepeat(urls) ==
    \A i \in 1..Len(urls) : \A j \in 1..Len(urls) : urls[i] = urls[j] => i = j

\* C16: for every list of start locations and every link graph of pages, the
\* page walker fetches each URL at most once and yields each URL at most once,
\* a rel-link back to a visited location included.
C16_EachUrlOnce ==
    flt.phase = "walk" =>
        /\ NoRepeat([i \in 1..Len(flt.fetched) |-> flt.fetched[i].url])
        /\ NoRepeat(flt.yielded)

\* C18: when the GET of a page or its HEAD probe fails with an HTTP error, a
\* connection error or a timeout, get_page gives no page and raises nothing; the
\* walker yields nothing for that location and enqueues none of its links, and
\* it goes on with the rest of the FIFO: a page that arrives is yielded, and
\* when the walker stops every start location has been asked for.
C18_FailedFetchDropped ==
    flt.phase = "walk" =>
        /\ flt.raised = "none"
        /\ \A i \in 1..Len(flt.fetched) :
              /\ flt.fetched[i].kind \in FetchFailures =>
                    /\ ~flt.fetched[i].yielded
                    /\ flt.fetched[i].enqueued = <<>>
              /\ flt.fetched[i].kind = "ok" => flt.fetched[i].yielded
        /\ flt.all_locations = <<>> =>
              \A i \in 1..Len(flt.start) :
                \E j \in 1..Len(flt.fetched) :
                  flt.fetched[j].url = StripFragment(flt.start[i].url)

\* a timed-out first location, then the page of the second one yielded
C18_Witness ==
    /\ flt.phase = "walk"
    /\ Len(flt.start) = 2
    /\ flt.all_locations = <<>>
    /\ Len(flt.fetched) = 2
    /\ flt.fetched[1].kind = "timeout"
    /\ flt.fetched[2].kind = "ok"
    /\ flt.fetched[2].yielded
    /\ flt.yielded = <<StripFragment(flt.start[2].url)>>

\* the (scheme, host) pairs of the http locations that are not local
ClaimInsecurePairs(locations) ==
    {<<UrlScheme(locations[i].url), UrlHost(locations[i].url)>> :
        i \in {k \in 1..Len(locations) :
                  /\ UrlScheme(locations[k].url) = "http"
                  /\ UrlHost(locations[k].url) \notin {"localhost", "127.0.0.1"}}}

\* C19: in one find_requirement call, the insecure-transport warnings are as
\* many as the distinct (scheme, host) pairs of the url locations that use http
\* and are not on localhost or 127.0.0.1.
C19_OneWarningPerPair ==
    flt.phase = "warn_done" =>
        Len(flt.out.warnings) = Cardinality(ClaimInsecurePairs(flt.out.locations))

\* C14: across successive find_requirement calls on one finder, the warnings a
\* failing call reports reflect only the links ignored during that call: a
\* call that ignored no external link reports no external warning, a call
\* that ignored no unverifiable link reports no unverified warning.
C14_WarningsScopedToCall ==
    pc = "done" =>
        /\ result.warn_external => ignored.external
        /\ result.warn_unverified => ignored.unverified

\* C21: the link filter is idempotent and pure: what it finds for a link, a
\* search name and a configuration is the same under every value of
\* logged_links, need_warn_external and need_warn_unverified, and a second
\* application finds the same and leaves the state as the first one left it.
C21_FilterIdempotentPure ==
    /\ flt.phase \in {"once", "twice"} =>
          \A state \in StateSpace(flt.link) :
            _link_package_versions(flt.link, flt.search_name, flt.config,
                                   state).found = flt.first.found
    /\ flt.phase = "twice" =>
          /\ flt.second.found = flt.first.found
          /\ flt.second.state = flt.first.state

\* a link that is found twice although it is in logged_links and both flags
\* are set
C21_Witness ==
    /\ flt.phase = "twice"
    /\ flt.link.url \in flt.state.logged_links
    /\ flt.state.need_warn_external
    /\ flt.state.need_warn_unverified
    /\ flt.first.found # <<>>
    /\ flt.second.found = flt.first.found

\* the hosting check, or the verifiability check, would reject the link
ClaimExternalRejects(link, search_name, config) ==
    link.internal = "no" /\ ~ClaimExternalAllowed(search_name, config)

ClaimUnverifiedRejects(link, search_name, config) ==
    /\ link.verifiable = "no"
    /\ NormalizeName(search_name) \notin config.allow_unverified

\* the link is of another project, or its file name has no known extension
ClaimOtherProjectOrFormat(link, search_name, config) ==
    \/ link.proj = ""
    \/ Lower(link.proj) # Lower(search_name)
    \/ link.ext \notin _known_extensions(config.use_wheel)

\* C22 as stated, for every link: a link of another project or of an unknown
\* format leaves need_warn_external and need_warn_unverified unchanged.
C22_DecisionOrderOriginal ==
    (flt.phase = "once"
     /\ ClaimOtherProjectOrFormat(flt.link, flt.search_name, flt.config))
      => /\ flt.first.state.need_warn_external = flt.state.need_warn_external
         /\ flt.first.state.need_warn_unverified = flt.state.need_warn_unverified

\* C22: the link filter keeps its decision order: a call changes a flag only
\* for a link that passed the extension, macOS-zip, wheel and project-name
\* steps, those of them that the filter applies to it: a link with an egg
\* fragment goes straight to the project-name step (another project's link
\* and a link skipped for its unknown format leave both flags unchanged);
\* one call sets at most one flag, need_warn_external when both checks would
\* reject; a link rejected for its python version has set neither flag, and is
\* rejected for it only when neither check rejects.
C22_DecisionOrder ==
    flt.phase = "once" =>
      LET link == flt.link
          reached == ClaimReachedHosting(link, flt.search_name, flt.config)
          ext_rej == ClaimExternalRejects(link, flt.search_name, flt.config)
          unv_rej == ClaimUnverifiedRejects(link, flt.search_name, flt.config)
          before == flt.state
          after == flt.first.state
      IN  /\ after.need_warn_external =
                (before.need_warn_external \/ (reached /\ ext_rej))
          /\ after.need_warn_unverified =
                (before.need_warn_unverified \/ (reached /\ ~ext_rej /\ unv_rej))
          /\ (\/ link.proj = ""
              \/ Lower(link.proj) # Lower(flt.search_name)
              \/ flt.first.out = "unknown_format")
                => /\ after.need_warn_external = before.need_warn_external
                   /\ after.need_warn_unverified = before.need_warn_unverified
          /\ flt.first.out = "python_version" =>
                /\ reached /\ ~ext_rej /\ ~unv_rej
                /\ after.need_warn_external = before.need_warn_external
                /\ after.need_warn_unverified = before.need_warn_unverified
          /\ (reached /\ ~ext_rej /\ ~unv_rej /\ link.pysuf = "mismatch")
                => flt.first.out = "python_version"

\* an external, unverifiable link with the wrong python version, nothing
\* allowed, both flags clear: only need_warn_external is set
C22_Witness ==
    /\ flt.phase = "once"
    /\ ClaimReachedHosting(flt.link, flt.search_name, flt.config)
    /\ ClaimExternalRejects(flt.link, flt.search_name, flt.config)
    /\ ClaimUnverifiedRejects(flt.link, flt.search_name, flt.config)
    /\ flt.link.pysuf = "mismatch"
    /\ ~flt.state.need_warn_external
    /\ ~flt.state.need_warn_unverified
    /\ flt.first.state.need_warn_external
    /\ ~flt.first.state.need_warn_unverified

\* C23: with finitely many distinct locations and every fetch returning, the
\* page walker terminates: there is at most one fetch per distinct location,
\* and the FIFO becomes empty, also when pages link to each other in a cycle.
C23_WalkerTerminates ==
    /\ [](flt.phase = "walk" =>
            /\ flt.seen \subseteq WalkUrls
            /\ Len(flt.fetched) = Cardinality(flt.seen))
    /\ <>(flt.phase = "walk" /\ flt.all_locations = <<>>)

\* two pages whose rel-links point at each other, both followed, and the
\* walker at its end
C23_Witness ==
    /\ flt.phase = "walk"
    /\ flt.all_locations = <<>>
    /\ Len(flt.fetched) = 2
    /\ Len(flt.fetched[1].enqueued) = 1
    /\ Len(flt.fetched[2].enqueued) = 1
    /\ StripFragment(flt.fetched[1].enqueued[1].url) = flt.fetched[2].url
    /\ StripFragment(flt.fetched[2].enqueued[1].url) = flt.fetched[1].url

\* C24: in every finder allow_unverified is a subset of allow_external from
\* construction on; every rel-link is made with trusted = False, so the walker
\* enqueues one only when the normalized name of the requirement is in
\* allow_unverified: a name in allow_external, or allow_all_external, does
\* not by itself get a homepage or download link followed.
C24_RelLinksNeedUnverified ==
    /\ allow_unverified \subseteq allow_external
    /\ flt.phase = "walk" =>
          /\ flt.config = Config
          /\ Lower(NormalizeName(ReqName)) \notin allow_unverified =>
                /\ \A i \in 1..Len(flt.fetched) : flt.fetched[i].enqueued = <<>>
                /\ \A i \in 1..Len(flt.all_locations) :
                      flt.all_locations[i].trusted = "yes"
                /\ flt.seen \subseteq {flt.start[i].url : i \in 1..Len(flt.start)}

\* the name allowed unverified, and the rel-link of the first page followed
\* to a second page
C24_Witness ==
    /\ flt.phase = "walk"
    /\ Lower(NormalizeName(ReqName)) \in allow_unverified
    /\ Len(flt.fetched) = 2
    /\ Len(flt.start) = 1
    /\ flt.fetched[1].enqueued # <<>>
    /\ flt.fetched[2].url = StripFragment(flt.fetched[1].enqueued[1].url)
    /\ flt.fetched[2].url # flt.fetched[1].url
====
